---- MODULE Spec2Model ----
(***************************************************************************)
(* Model of the WhatsApp gateway: the single-backend supervisor            *)
(* (createClient / scheduleRestart / guardPage / startWatchdog) and the    *)
(* inbound message handler that relays events to the webhook.              *)
(*                                                                         *)
(* Timers and promises are scheduled freely: an armed timeout may fire at   *)
(* any later step.                                                         *)
(***************************************************************************)
EXTENDS Integers, Sequences, FiniteSets, TLC

\* ------------------------------------------------------------------ bounds
MaxClients == 3        \* Client objects constructed in one run
MaxDisc == 3           \* client 'disconnected' events in one run
MaxBuilt == 3          \* Client objects a SessionManager constructs in one run
MaxNow == 2            \* readings of Date.now() that differ, after the first
MaxRuns == 2           \* runs of restoreExistingSessions()
MaxClosing == 1        \* destroySession() calls awaiting the backend at once

VARIABLES
  env,               \* process.env, fixed at start
  client,            \* let client: 0 is undefined, else the instance
  clientReady,       \* let clientReady
  restartTimer,      \* let restartTimer: FALSE is null, TRUE a Timeout handle
  timers,            \* number of pending restart timeouts in Node's timer list
  watchdogInterval,  \* let watchdogInterval: FALSE is null
  watchdogs,         \* number of armed watchdog intervals
  probe,             \* a watchdog probe is in flight
  hung,              \* the current client's backend has stopped responding
  inst,              \* every Client object constructed so far
  nClients,          \* how many Client objects were constructed
  destroying,        \* per instance: restart callbacks awaiting its destroy()
  creating,          \* createClient() runs awaiting ProxyChain.anonymizeProxy
  crashed,           \* the process died of an uncaught error
  hist,              \* observations: signals seen, destroy() calls made
  inbound,           \* the last inbound 'message' event dispatched
  webhook,           \* the webhook POSTs made for that event
  delivery,          \* per POST: where its fetch() stands
  req,               \* the HTTP request being served by the router
  sm,                \* the SessionManager object
  proc               \* the process: shutdown under way, what armed the restart
                     \* timeout, the last purge, the page request intercepted

vars == <<env, client, clientReady, restartTimer, timers, watchdogInterval,
          watchdogs, probe, hung, inst, nClients, destroying, creating,
          crashed, hist, inbound, webhook, delivery, req, sm, proc>>

Ids == 1..MaxClients

\* ------------------------------------------------------------ strings
\* A string is a sequence of tokens; the empty sequence also stands for an
\* unset environment variable (the code only tests these for truthiness).
Unset == <<>>
GroupSuffix == <<"@g.us">>

\* String.prototype.includes
Includes(s, pat) ==
  \E i \in 1..(Len(s) - Len(pat) + 1) : SubSeq(s, i, i + Len(pat) - 1) = pat

\* String.prototype.trim, for the blank token " "
RECURSIVE TrimLeft(_)
TrimLeft(s) ==
  IF s # <<>> /\ Head(s) = " " THEN TrimLeft(Tail(s)) ELSE s

RECURSIVE TrimRight(_)
TrimRight(s) ==
  IF s # <<>> /\ s[Len(s)] = " " THEN TrimRight(SubSeq(s, 1, Len(s) - 1)) ELSE s

Trim(s) == TrimRight(TrimLeft(s))

\* String.prototype.split(','): the pieces between the "," tokens
RECURSIVE Split(_, _)
Split(s, piece) ==
  IF s = <<>> THEN <<piece>>
  ELSE IF Head(s) = "," THEN <<piece>> \o Split(Tail(s), <<>>)
  ELSE Split(Tail(s), Append(piece, Head(s)))

\* Array.prototype.includes
ArrayIncludes(arr, x) == \E i \in 1..Len(arr) : arr[i] = x

\* ------------------------------------------------------ inbound handler
DefaultAllowedGroup == <<"120363406850649153", "@g.us">>
DefaultWebhookUrl == <<"http://localhost:8000/whatsapp/v2/webhook">>

\* JavaScript values as JSON.stringify sees them
Undefined == [t |-> "undefined"]
JsonNull == [t |-> "null"]
JsonStr(s) == [t |-> "string", v |-> s]
JsonBool(b) == [t |-> "boolean", v |-> b]

\* JSON.stringify of an object: a key whose value is undefined is left out
JSONStringify(obj) == [k \in {j \in DOMAIN obj : obj[j] # Undefined} |-> obj[k]]

\* Faulty variant: compares the variable, a string, with the boolean false
handleMessagesVsBoolean(e) == TRUE

handleMessages(e) == e.HANDLE_MESSAGES # <<"false">>

\* Faulty variant: the pieces are not trimmed
allowedGroupsNoTrim(e) ==
  IF e.ALLOWED_GROUPS # Unset
  THEN Split(e.ALLOWED_GROUPS, <<>>)
  ELSE <<DefaultAllowedGroup>>

\* ALLOWED_GROUPS split at ',' and trimmed, or the built-in default list
allowedGroups(e) ==
  IF e.ALLOWED_GROUPS # Unset
  THEN LET parts == Split(e.ALLOWED_GROUPS, <<>>)
       IN  [i \in 1..Len(parts) |-> Trim(parts[i])]
  ELSE <<DefaultAllowedGroup>>

isGroup(m) == Includes(m.from, GroupSuffix)

\* Faulty variant: private messages are on unless switched off
allowPrivateMessagesDefaultOn(e) == e.ALLOW_PRIVATE_MESSAGES # <<"false">>

allowPrivateMessages(e) == e.ALLOW_PRIVATE_MESSAGES = <<"true">>

\* Faulty variant: msg._data.quotedStanzaID as it is
repliedMessageIdRaw(m) ==
  IF m.hasQuotedMsg /\ m.quotedStanzaID # Unset
  THEN JsonStr(m.quotedStanzaID)
  ELSE Undefined

\* msg.hasQuotedMsg ? msg._data.quotedStanzaID || null : null
repliedMessageId(m) ==
  IF m.hasQuotedMsg
  THEN IF m.quotedStanzaID # Unset THEN JsonStr(m.quotedStanzaID) ELSE JsonNull
  ELSE JsonNull

webhookPayload(m) ==
  [message_id |-> JsonStr(m.id),
   chat_id |-> JsonStr(m.from),
   replied_message_id |-> repliedMessageId(m),
   is_group |-> JsonBool(Includes(m.from, GroupSuffix)),
   message_text |-> JsonStr(m.body)]

webhookUrl(e) ==
  IF e.WHATSAPP_BOT_URL # Unset THEN e.WHATSAPP_BOT_URL ELSE DefaultWebhookUrl

\* audience scoping: the private-message switch
PassesPrivateFilter(e, m) == isGroup(m) \/ allowPrivateMessages(e)

\* audience scoping: the allowed-groups list
PassesGroupFilter(e, m) == isGroup(m) => ArrayIncludes(allowedGroups(e), m.from)

\* Faulty variant: msg.to is not compared with BOT_PHONE_NUMBER
PassesTargetFilterAnyRecipient(e, m) ==
  /\ e.BOT_PHONE_NUMBER # Unset
  /\ e.WHATSAPP_API_KEY # Unset

\* BOT_PHONE_NUMBER and WHATSAPP_API_KEY are set and msg.to is the bot
PassesTargetFilter(e, m) ==
  /\ e.BOT_PHONE_NUMBER # Unset
  /\ e.WHATSAPP_API_KEY # Unset
  /\ m.to = e.BOT_PHONE_NUMBER

\* One run of the 'message' listener: the fetch() calls it makes
messageHandler(e, m) ==
  IF ~PassesPrivateFilter(e, m) THEN <<>>
  ELSE IF ~PassesGroupFilter(e, m) THEN <<>>
  ELSE IF ~PassesTargetFilter(e, m) THEN <<>>
  ELSE <<[url |-> webhookUrl(e),
          apiKey |-> e.WHATSAPP_API_KEY,
          body |-> JSONStringify(webhookPayload(m))]>>

\* Faulty variant: a failed POST is sent again
retriesAfterFailure(outcome) == IF outcome = "ok" THEN 0 ELSE 1

\* The fetch() calls the handler makes once its POST has settled: response.ok
\* or not, or a network error caught, it only logs
retriesAfter(outcome) == 0

\* emit('message', m) on an instance with n 'message' listeners
RECURSIVE Emit(_, _, _)
Emit(n, e, m) ==
  IF n = 0 THEN <<>> ELSE messageHandler(e, m) \o Emit(n - 1, e, m)

\* ------------------------------------------------------------ supervisor
Events == {"ready", "disconnected", "auth_failure", "loading_screen",
           "change_state", "qr", "authenticated", "message"}

NoHandlers == [ev \in Events |-> 0]

\* Faulty variant: the 'message' listener is registered twice
attachClientHandlersTwice(h, e) ==
  [ev \in Events |->
     IF ev = "message"
     THEN h[ev] + (IF e.HANDLE_MESSAGES # <<"false">> THEN 2 ELSE 0)
     ELSE h[ev] + 1]

\* client.on(...) calls of attachClientHandlers: one listener per event, the
\* 'message' listener only when HANDLE_MESSAGES is not 'false'
attachClientHandlers(h, e) ==
  [ev \in Events |->
     IF ev = "message"
     THEN h[ev] + (IF handleMessages(e) THEN 1 ELSE 0)
     ELSE h[ev] + 1]

\* phase: "none" not constructed, "init" initialize() running, "ready" has
\* emitted 'ready', "failed" initialize() rejected, "closed" its browser is
\* gone. guarded counts the guardPage() calls made on its page.
\* proxy is the address of the --proxy-server launch argument (Unset: no such
\* argument), anonymized how many ProxyChain.anonymizeProxy calls the
\* createClient() run that built the instance made, purging how many
\* group-purge intervals hold the instance in their closure.
NoClient ==
  [phase |-> "none", guarded |-> 0, handlers |-> NoHandlers, proxy |-> Unset,
   anonymized |-> 0, purging |-> 0]

\* new Client(clientConfig); attachClientHandlers(client); client.initialize()
NewClient(e, proxyArg) ==
  [phase |-> "init", guarded |-> 0,
   handlers |-> attachClientHandlers(NoHandlers, e), proxy |-> proxyArg,
   anonymized |-> IF e.PROXY_SERVER # Unset THEN 1 ELSE 0, purging |-> 0]

\* Faulty variant: no test of restartTimer
scheduleRestartUnguarded(rt, tm) ==
  [restartTimer |-> TRUE, timers |-> tm + 1]

\* scheduleRestart(): arms the debounce timeout unless one is armed
scheduleRestart(rt, tm) ==
  IF rt THEN [restartTimer |-> rt, timers |-> tm]
  ELSE [restartTimer |-> TRUE, timers |-> tm + 1]

ScheduleRestart ==
  LET r == scheduleRestart(restartTimer, timers)
  IN  restartTimer' = r.restartTimer /\ timers' = r.timers

\* Instance k is no longer the current client, or destroy() was called on it
Superseded(k) == k # client \/ destroying[k] > 0 \/ proc.closing = k

\* Observes the scheduleRestart() call that arms the timeout: whether the
\* instance k whose failure signal made it was stale at that time
Arms(k) ==
  proc' = IF restartTimer THEN proc
          ELSE [proc EXCEPT !.armedBy = IF Superseded(k) THEN k ELSE 0]

\* Faulty variant: setInterval without clearInterval on the old handle
startWatchdogNoClear(wi, n) ==
  [watchdogInterval |-> TRUE, watchdogs |-> n + 1]

\* startWatchdog(): clearInterval on the old handle, then setInterval
startWatchdog(wi, n) ==
  [watchdogInterval |-> TRUE, watchdogs |-> (IF wi THEN n - 1 ELSE n) + 1]

\* createClient() from `client = new Client(...)` to its end
Construct(proxyArg) ==
  LET k == nClients + 1
      w == startWatchdog(watchdogInterval, watchdogs)
  IN  /\ k \in Ids
      /\ inst' = [inst EXCEPT ![k] = NewClient(env, proxyArg)]
      /\ nClients' = k
      /\ client' = k
      /\ hung' = FALSE
      /\ watchdogInterval' = w.watchdogInterval
      /\ watchdogs' = w.watchdogs

\* createClient() up to its first suspension: with PROXY_SERVER set it
\* awaits ProxyChain.anonymizeProxy, otherwise it runs to its end
createClient ==
  IF env.PROXY_SERVER # Unset
  THEN /\ creating' = creating + 1
       /\ UNCHANGED <<inst, nClients, client, hung, watchdogInterval,
                      watchdogs>>
  ELSE /\ Construct(Unset)
       /\ UNCHANGED creating

\* What ProxyChain.anonymizeProxy(address) resolves with: the address of a
\* local forwarding server, which carries no credentials
anonymizeProxy(address) == <<"http://127.0.0.1:", "port">>

\* process.env.PROXY_SERVER.includes('@')
hasEmbeddedAuth(address) == Includes(address, <<"@">>)

Sum(f) == LET RECURSIVE S(_)
              S(k) == IF k = 0 THEN 0 ELSE f[k] + S(k - 1)
          IN  S(MaxClients)

\* Client objects still to be constructed by the runs in flight
Owed == creating + Sum(destroying)

Live(k) == inst[k].phase \in {"init", "ready"}

\* ------------------------------------------------------------ inputs
Bot == <<"bot", "@c.us">>
G1 == <<"g1", "@g.us">>
G2 == <<"g2", "@g.us">>
P1 == <<"p1", "@c.us">>

BaseEnv ==
  [HANDLE_MESSAGES |-> Unset, PROXY_SERVER |-> Unset,
   ALLOWED_GROUPS |-> G1, ALLOW_PRIVATE_MESSAGES |-> Unset,
   BOT_PHONE_NUMBER |-> Bot, WHATSAPP_API_KEY |-> <<"key">>,
   WHATSAPP_BOT_URL |-> Unset, ENABLE_GROUP_PURGE |-> Unset]

Msg(from, to, quoted, stanza) ==
  [id |-> <<"id">> \o from, from |-> from, to |-> to, body |-> <<"hi">>,
   hasQuotedMsg |-> quoted, quotedStanzaID |-> stanza]

SupervisorEnvs ==
  {[BaseEnv EXCEPT !.HANDLE_MESSAGES = h, !.PROXY_SERVER = p] :
     h \in {Unset, <<"false">>}, p \in {Unset, <<"http://proxy:8000">>}}

PlainProxy == <<"http://proxy:8000">>
AuthProxy == <<"http://", "user:secret", "@", "proxy:8000">>

ProxyEnvs ==
  {[BaseEnv EXCEPT !.PROXY_SERVER = p] : p \in {PlainProxy, AuthProxy}}

SupervisorMsgs == {Msg(G1, Bot, FALSE, Unset)}

NoInbound == [src |-> 0]

NoReq == [stage |-> "none"]
NoManager ==
  [made |-> FALSE, pending |-> {}, closing |-> {}, sending |-> {}]

\* No page request was intercepted
NoRequest == [seen |-> FALSE]

\* shutdown: "no" until SIGTERM or SIGINT arrives, then where
\* gracefulShutdown() stands ("destroying": awaiting client.destroy(),
\* "waiting": awaiting its 2 s timeout, "exited": process.exit was called);
\* closing is the instance it called destroy() on. armedBy is the instance
\* whose failure signal armed the pending restart timeout, if it was replaced
\* or being torn down when it raised the signal (0: otherwise). purged
\* observes the last purge tick that went on to client.getChats().
\* intercepting holds the instances on whose page protectNavigation() has
\* registered its 'request' listener, request the last request such a page
\* intercepted.
NoProc ==
  [shutdown |-> "no", closing |-> 0, armedBy |-> 0,
   purged |-> [by |-> 0], intercepting |-> {}, request |-> NoRequest]

\* The process is alive: no uncaught error and no process.exit()
Running == ~crashed /\ proc.shutdown # "exited"

\* hist observes one burst of 'disconnected' events: how many came (disc),
\* whether the burst is well formed (the first hit the Ready current client,
\* each later one came while the timeout armed by the first was pending),
\* whether any other failure signal was raised by a backend on its own
\* (other), and the destroy() calls made. Off: nothing is observed.
Off == [on |-> FALSE]
Observing ==
  [on |-> TRUE, disc |-> 0, burstOK |-> TRUE, other |-> FALSE, nDestroy |-> 0]

ObserveOther == hist' = IF hist.on THEN [hist EXCEPT !.other = TRUE] ELSE hist

\* ------------------------------------------------------------ actions
\* The state once the module has been loaded: createClient() was called
\* (line 567) and ran up to its first suspension.
Loaded(e, h) ==
  /\ env = e
  /\ clientReady = FALSE
  /\ restartTimer = FALSE
  /\ timers = 0
  /\ probe = FALSE
  /\ hung = FALSE
  /\ destroying = [k \in Ids |-> 0]
  /\ crashed = FALSE
  /\ hist = h
  /\ inbound = NoInbound
  /\ webhook = <<>>
  /\ delivery = <<>>
  /\ req = NoReq
  /\ sm = NoManager
  /\ proc = NoProc
  /\ IF e.PROXY_SERVER # Unset
     THEN /\ creating = 1
          /\ inst = [k \in Ids |-> NoClient]
          /\ nClients = 0
          /\ client = 0
          /\ watchdogInterval = FALSE
          /\ watchdogs = 0
     ELSE /\ creating = 0
          /\ inst = [k \in Ids |-> IF k = 1 THEN NewClient(e, Unset) ELSE NoClient]
          /\ nClients = 1
          /\ client = 1
          /\ watchdogInterval = TRUE
          /\ watchdogs = 1

Init == \E e \in SupervisorEnvs : Loaded(e, Off)

\* ProxyChain.anonymizeProxy settles (resolved, or rejected and caught) and
\* createClient() runs to its end
ProxySettle ==
  /\ Running
  /\ creating > 0
  /\ creating' = creating - 1
  /\ \E ok \in BOOLEAN :
       Construct(IF ok THEN anonymizeProxy(env.PROXY_SERVER)
                 ELSE env.PROXY_SERVER)
  /\ UNCHANGED <<env, clientReady, restartTimer, timers, probe, destroying,
                 crashed, hist, inbound, webhook>>
  /\ UNCHANGED <<delivery, req, sm, proc>>

\* An error escapes a listener: the emitter's caller swallows it or the
\* process dies of it.
Escapes == crashed' \in BOOLEAN

\* startGroupPurge(client): the number of intervals it arms, one when
\* ENABLE_GROUP_PURGE === 'true'
startGroupPurge(e) == IF e.ENABLE_GROUP_PURGE = <<"true">> THEN 1 ELSE 0

\* 'ready' listener: clientReady = true; guardPage(page); startGroupPurge;
\* then startAutoPurge, which is not defined, throws a ReferenceError
Ready(k) ==
  /\ Running
  /\ inst[k].phase = "init"
  /\ inst[k].handlers["ready"] > 0
  /\ clientReady' = TRUE
  /\ inst' = [inst EXCEPT ![k].phase = "ready", ![k].guarded = @ + 1,
                          ![k].purging = @ + startGroupPurge(env)]
  /\ Escapes
  /\ UNCHANGED <<env, client, restartTimer, timers, watchdogInterval,
                 watchdogs, probe, hung, nClients, destroying, creating,
                 hist, inbound, webhook>>
  /\ UNCHANGED <<delivery, req, sm, proc>>

\* client.initialize() rejects; nothing awaits or catches it (line 141), so
\* it is an unhandled rejection, which ends a Node 20 process
InitFail(k) ==
  /\ Running
  /\ inst[k].phase = "init"
  /\ inst' = [inst EXCEPT ![k].phase = "failed"]
  /\ crashed' = TRUE
  /\ UNCHANGED <<env, client, clientReady, restartTimer, timers,
                 watchdogInterval, watchdogs, probe, hung, nClients,
                 destroying, creating, hist, inbound, webhook>>
  /\ UNCHANGED <<delivery, req, sm, proc>>

\* client 'disconnected' listener: clientReady = false; scheduleRestart()
ClientDisconnected(k) ==
  /\ Running
  /\ inst[k].phase = "ready" /\ inst[k].handlers["disconnected"] > 0
  /\ hist.on => hist.disc < MaxDisc
  /\ clientReady' = FALSE
  /\ ScheduleRestart
  /\ Arms(k)
  /\ hist' = IF hist.on
             THEN [hist EXCEPT
               !.disc = @ + 1,
               !.burstOK =
                 /\ hist.burstOK
                 /\ hist.disc = 0 => (k = client /\ clientReady)
                 /\ hist.disc > 0 => (hist.nDestroy = 0 /\ timers > 0)]
             ELSE hist
  /\ UNCHANGED <<env, client, watchdogInterval, watchdogs, probe, hung, inst,
                 nClients, destroying, creating, crashed, inbound, webhook>>
  /\ UNCHANGED <<delivery, req, sm>>

\* page 'error' listener of guardPage: scheduleRestart(); then the stray
\* `x` throws a ReferenceError
PageError(k) ==
  /\ Running
  /\ inst[k].phase = "ready" /\ inst[k].guarded > 0
  /\ ScheduleRestart
  /\ Arms(k)
  /\ Escapes
  /\ ObserveOther
  /\ UNCHANGED <<env, client, clientReady, watchdogInterval, watchdogs,
                 probe, hung, inst, nClients, destroying, creating, inbound,
                 webhook>>
  /\ UNCHANGED <<delivery, req, sm>>

\* page 'close' listener of guardPage, the page closing on its own
PageClose(k) ==
  /\ Running
  /\ inst[k].phase = "ready" /\ inst[k].guarded > 0
  /\ ScheduleRestart
  /\ Arms(k)
  /\ ObserveOther
  /\ UNCHANGED <<env, client, clientReady, watchdogInterval, watchdogs,
                 probe, hung, inst, nClients, destroying, creating, crashed,
                 inbound, webhook>>
  /\ UNCHANGED <<delivery, req, sm>>

\* browser 'disconnected' listener of guardPage, the browser dying on its own
BrowserDisconnected(k) ==
  /\ Running
  /\ inst[k].phase = "ready" /\ inst[k].guarded > 0
  /\ ScheduleRestart
  /\ Arms(k)
  /\ inst' = [inst EXCEPT ![k].phase = "closed"]
  /\ ObserveOther
  /\ UNCHANGED <<env, client, clientReady, watchdogInterval, watchdogs,
                 probe, hung, nClients, destroying, creating, crashed,
                 inbound, webhook>>
  /\ UNCHANGED <<delivery, req, sm>>

\* The restart timeout fires: restartTimer = null; client.destroy() is
\* called and awaited. With no client yet the call throws a TypeError, which
\* the try/catch swallows, and createClient() follows at once.
RestartTimerFires ==
  /\ Running
  /\ nClients + Owed < MaxClients
  /\ timers > 0
  /\ timers' = timers - 1
  /\ restartTimer' = FALSE
  /\ IF client = 0
     THEN /\ createClient
          /\ UNCHANGED <<destroying, hist>>
     ELSE /\ destroying' = [destroying EXCEPT ![client] = @ + 1]
          /\ hist' = IF hist.on THEN [hist EXCEPT !.nDestroy = @ + 1] ELSE hist
          /\ UNCHANGED <<inst, nClients, client, hung, watchdogInterval,
                         watchdogs, creating>>
  /\ UNCHANGED <<env, clientReady, probe, crashed, inbound, webhook>>
  /\ proc' = [proc EXCEPT !.armedBy = 0]
  /\ UNCHANGED <<delivery, req, sm>>

\* A destroy() in flight closes the instance's browser. Closing emits the
\* page's 'close' and the browser's 'disconnected', so on a page that
\* guardPage() was called on, its two listeners run scheduleRestart().
Teardown(k) ==
  /\ Running
  /\ destroying[k] > 0 \/ proc.closing = k
  /\ Live(k)
  /\ inst' = [inst EXCEPT ![k].phase = "closed"]
  /\ IF inst[k].guarded > 0
     THEN ScheduleRestart /\ Arms(k)
     ELSE UNCHANGED <<restartTimer, timers, proc>>
  /\ UNCHANGED <<env, client, clientReady, watchdogInterval, watchdogs,
                 probe, hung, nClients, destroying, creating, crashed, hist,
                 inbound, webhook>>
  /\ UNCHANGED <<delivery, req, sm>>

\* `await client.destroy().catch(() => {})` settles and createClient() is
\* called. destroy() resolves once the browser is closed; on an instance
\* whose browser is not launched yet it rejects (pupBrowser is undefined),
\* which is swallowed, and the instance goes on initializing.
DestroySettles(k) ==
  /\ Running
  /\ destroying[k] > 0
  /\ inst[k].phase \in {"closed", "init"}
  /\ destroying' = [destroying EXCEPT ![k] = @ - 1]
  /\ createClient
  /\ UNCHANGED <<env, clientReady, restartTimer, timers, probe, crashed,
                 hist, inbound, webhook>>
  /\ UNCHANGED <<delivery, req, sm, proc>>

\* The current client's backend stops responding
Hang ==
  /\ Running
  /\ client # 0 /\ inst[client].phase = "ready"
  /\ ~hung
  /\ hung' = TRUE
  /\ UNCHANGED <<env, client, clientReady, restartTimer, timers,
                 watchdogInterval, watchdogs, probe, inst, nClients,
                 destroying, creating, crashed, hist, inbound, webhook>>
  /\ UNCHANGED <<delivery, req, sm, proc>>

\* The watchdog interval fires: returns unless clientReady && client, else
\* starts the probe client.pupPage.evaluate raced against a 10 s timeout
WatchdogTick ==
  /\ Running
  /\ watchdogs > 0
  /\ ~probe
  /\ clientReady /\ client # 0
  /\ probe' = TRUE
  /\ UNCHANGED <<env, client, clientReady, restartTimer, timers,
                 watchdogInterval, watchdogs, hung, inst, nClients,
                 destroying, creating, crashed, hist, inbound, webhook>>
  /\ UNCHANGED <<delivery, req, sm, proc>>

\* The probe settles. It resolves only if the page answers in time; it
\* throws, or the 10 s timeout rejects, when the backend has stopped
\* responding, and the catch calls scheduleRestart().
ProbeSettles ==
  /\ Running
  /\ probe
  /\ probe' = FALSE
  /\ \E ok \in BOOLEAN :
       /\ ok => ~hung
       /\ IF ok THEN UNCHANGED <<restartTimer, timers, hist, proc>>
          ELSE ScheduleRestart /\ Arms(client) /\ ObserveOther
  /\ UNCHANGED <<env, client, clientReady, watchdogInterval, watchdogs, hung,
                 inst, nClients, destroying, creating, crashed, inbound,
                 webhook>>
  /\ UNCHANGED <<delivery, req, sm>>

\* A Ready instance emits 'message', or the debug endpoint emits one on the
\* current client (line 498): every 'message' listener on it runs
Message(k, m) ==
  /\ Running
  /\ inst[k].phase = "ready" \/ k = client
  /\ inbound' = [src |-> k, msg |-> m]
  /\ webhook' = Emit(inst[k].handlers["message"], env, m)
  /\ UNCHANGED <<env, client, clientReady, restartTimer, timers,
                 watchdogInterval, watchdogs, probe, hung, inst, nClients,
                 destroying, creating, crashed, hist>>
  /\ delivery' = [i \in 1..Len(webhook') |-> "pending"]
  /\ UNCHANGED <<req, sm, proc>>

Next ==
  \/ ProxySettle
  \/ \E k \in Ids : Ready(k)
  \/ \E k \in Ids : InitFail(k)
  \/ \E k \in Ids : ClientDisconnected(k)
  \/ \E k \in Ids : PageError(k)
  \/ \E k \in Ids : PageClose(k)
  \/ \E k \in Ids : BrowserDisconnected(k)
  \/ RestartTimerFires
  \/ \E k \in Ids : Teardown(k)
  \/ \E k \in Ids : DestroySettles(k)
  \/ Hang
  \/ WatchdogTick
  \/ ProbeSettles
  \/ \E k \in Ids, m \in SupervisorMsgs : Message(k, m)

Spec == Init /\ [][Next]_vars

\* The inbound path alone: a Client becomes Ready and emits 'message' events
GatewayEnvs ==
  {[BaseEnv EXCEPT !.HANDLE_MESSAGES = h, !.ALLOWED_GROUPS = g,
                   !.ALLOW_PRIVATE_MESSAGES = a, !.BOT_PHONE_NUMBER = b,
                   !.WHATSAPP_API_KEY = w] :
     h \in {Unset, <<"false">>},
     g \in {Unset, G1, G1 \o <<",", " ">> \o G2},
     a \in {Unset, <<"true">>, <<"false">>},
     b \in {Unset, Bot},
     w \in {Unset, <<"key">>}}

G3 == <<"g3", "@g.us">>
Other == <<"other", "@c.us">>

GatewayMsgs ==
  {Msg(f, t, q[1], q[2]) :
     f \in {G1, G2, G3, DefaultAllowedGroup, P1},
     t \in {Bot, Other},
     q \in {<<FALSE, Unset>>, <<TRUE, Unset>>, <<TRUE, <<"q1">>>>}}

InitGateway == \E e \in GatewayEnvs : Loaded(e, Off)

\* What `await fetch(...)` can come back with: a 2xx response, another
\* response, or a rejection (network error)
FetchOutcomes == {"ok", "non2xx", "neterr"}

\* The fetch() of POST i settles and the handler runs to its end
WebhookSettles(i, o) ==
  /\ Running
  /\ i \in 1..Len(delivery)
  /\ delivery[i] = "pending"
  /\ LET n == retriesAfter(o)
     IN  /\ webhook' = webhook \o [j \in 1..n |-> webhook[i]]
         /\ delivery' = [delivery EXCEPT ![i] = o] \o [j \in 1..n |-> "pending"]
  /\ UNCHANGED <<env, client, clientReady, restartTimer, timers,
                 watchdogInterval, watchdogs, probe, hung, inst, nClients,
                 destroying, creating, crashed, hist, inbound, req, sm, proc>>

\* The webhook endpoint of POST i accepts the connection and never answers;
\* fetch() is called with no timeout or signal option, so nothing settles it
EndpointSilent(i) ==
  /\ Running
  /\ i \in 1..Len(delivery)
  /\ delivery[i] = "pending"
  /\ delivery' = [delivery EXCEPT ![i] = "silent"]
  /\ UNCHANGED <<env, client, clientReady, restartTimer, timers,
                 watchdogInterval, watchdogs, probe, hung, inst, nClients,
                 destroying, creating, crashed, hist, inbound, webhook, req,
                 sm, proc>>

NextGateway ==
  \/ \E k \in Ids : Ready(k)
  \/ \E k \in Ids, m \in GatewayMsgs : Message(k, m)
  \/ \E i \in 1..Len(delivery), o \in FetchOutcomes : WebhookSettles(i, o)
  \/ \E i \in 1..Len(delivery) : EndpointSilent(i)

SpecGateway == InitGateway /\ [][NextGateway]_vars

\* A response or a network error that has arrived is delivered to the
\* handler. Nothing makes an endpoint answer.
FairGateway ==
  /\ SpecGateway
  /\ WF_vars(\E i \in 1..Len(delivery), o \in FetchOutcomes : WebhookSettles(i, o))

\* ------------------------------------------------------------ HTTP routes
\* Faulty variant: the last promise to settle decides
raceSettleLastWins(outcome, r) == r

\* Promise.race: the first promise to settle decides, later ones are ignored
raceSettle(outcome, r) == IF outcome = "none" THEN r ELSE outcome

\* An awaited call. ms > 0: withTimeout(promise, ms), or the inline race of
\* the chats route, which never clears its timer (clears = FALSE); ms = 0: a
\* bare await. order lists the settlements in the order they happened.
NewGuard(ms, clears) ==
  [ms |-> ms, clears |-> clears, op |-> "pending",
   timer |-> IF ms > 0 THEN "armed" ELSE "none",
   outcome |-> "none", order |-> <<>>]

\* The operation settles with r; if that settles the race, finally() runs
\* clearTimeout
OperationSettles(g, r) ==
  [g EXCEPT !.op = r,
            !.outcome = raceSettle(@, r),
            !.timer = IF @ = "armed" /\ g.clears THEN "cleared" ELSE @,
            !.order = Append(@, r)]

\* The setTimeout callback rejects timeoutPromise
DeadlineFires(g) ==
  [g EXCEPT !.timer = "fired",
            !.outcome = raceSettle(@, "timeout"),
            !.order = Append(@, "timeout")]

Routes ==
  {"send-text", "send-media", "forward-message", "chats",
   "clear-group-messages", "status", "sessions", "qr", "initialize",
   "logout", "whatsapp-status", "health"}

\* The routes declared with the authenticateAPI middleware
UsesAuthenticateAPI(r) ==
  r \in {"send-text", "send-media", "forward-message", "clear-group-messages",
         "initialize", "logout", "whatsapp-status"}

\* The routes declared with the validateBody(schema) middleware
UsesValidateBody(r) == r \in {"send-text", "send-media"}

UsesValidateSession(r) ==
  r \in {"send-text", "send-media", "clear-group-messages"}

\* providedKey && providedKey === WHATSAPP_API_KEY
authenticateAPI(e, key) == key # Unset /\ key = e.WHATSAPP_API_KEY

Step(call, backend, ms, clears, onError, onEmpty) ==
  [call |-> call, backend |-> backend, ms |-> ms, clears |-> clears,
   onError |-> onError, onEmpty |-> onEmpty]

\* The awaited calls of a handler, in order. onError: the status sent when
\* the call rejects or its deadline passes; onEmpty: the status sent when it
\* resolves with nothing (0: the handler goes on).
Program(r, reply, media) ==
  CASE r = "send-text" ->
         IF reply
         THEN <<Step("getMessageById", TRUE, 0, FALSE, 500, 500),
                Step("reply", TRUE, 0, FALSE, 500, 500)>>
         ELSE <<Step("sendMessage", TRUE, 0, FALSE, 500, 500)>>
    [] r = "send-media" ->
         (IF media = "http"
          THEN <<Step("MessageMedia.fromUrl", FALSE, 30000, TRUE, 400, 0)>>
          ELSE <<>>)
         \o (IF reply
             THEN <<Step("getMessageById", TRUE, 0, FALSE, 504, 504),
                    Step("reply", TRUE, 180000, TRUE, 504, 500)>>
             ELSE <<Step("sendMessage", TRUE, 180000, TRUE, 504, 500)>>)
    [] r = "forward-message" ->
         <<Step("getMessageById", TRUE, 10000, TRUE, 404, 404),
           Step("forward", TRUE, 20000, TRUE, 504, 0)>>
    [] r = "chats" ->
         <<Step("getChats", TRUE, 30000, FALSE, 500, 500)>>
    [] r = "clear-group-messages" ->
         <<Step("getChatById", TRUE, 0, FALSE, 500, 404),
           Step("clearMessages", TRUE, 0, FALSE, 500, 0)>>
    [] OTHER -> <<>>

\* client.info is set once the instance has become ready
HasInfo(k) == k # 0 /\ inst[k].phase \in {"ready", "closed"}

Respond(rq, status, msg) ==
  [rq EXCEPT !.stage = "done", !.status = status, !.msg = msg]

\* The handler reaches awaited call i. With no client object the call
\* expression throws a TypeError, which the enclosing try catches.
StartStep(rq, i) ==
  LET st == rq.program[i]
  IN  IF st.backend /\ rq.client = 0
      THEN Respond(rq, st.onError, "failed")
      ELSE [rq EXCEPT !.stage = "call", !.step = i,
                      !.g = NewGuard(st.ms, st.clears),
                      !.backendCalls = @ + (IF st.backend THEN 1 ELSE 0)]

\* The code reads req.client or req.clientReady
ReadSession(rq) == [rq EXCEPT !.readSession = TRUE]

\* The handler body once the middlewares have passed
RunHandler(rq) ==
  CASE rq.route = "qr" -> Respond(rq, 400, "QR code not available")
    [] rq.route = "logout" -> Respond(rq, 400, "Cannot logout")
    [] rq.route \in {"initialize", "health"} -> Respond(rq, 200, "ok")
    [] rq.route = "whatsapp-status" -> Respond(ReadSession(rq), 200, "ok")
    [] rq.route \in {"status", "sessions"} ->
         IF rq.client = 0 THEN Respond(ReadSession(rq), 500, "failed")
         ELSE Respond(ReadSession(rq), 200, "ok")
    [] rq.route = "chats" ->
         IF rq.client = 0 \/ ~rq.clientReady \/ ~rq.hasInfo
         THEN Respond(ReadSession(rq), 400, "Client is not ready")
         ELSE StartStep(ReadSession(rq), 1)
    [] rq.route \in {"forward-message", "clear-group-messages"} ->
         IF ~rq.valid THEN Respond(rq, 400, "Missing required fields")
         ELSE StartStep(ReadSession(rq), 1)
    [] OTHER -> StartStep(ReadSession(rq), 1)

\* validateSession: isReady = clientReady && client.info; with no client
\* object, reading client.info for the 400 body throws, and the catch
\* answers 500
validateSession(rq) ==
  IF rq.client = 0
  THEN Respond(ReadSession(rq), 500, "Error validating session")
  ELSE IF ~(rq.clientReady /\ rq.hasInfo)
  THEN Respond(ReadSession(rq), 400, "Client is not ready")
  ELSE RunHandler(ReadSession(rq))

\* The middleware chain of a route, up to the handler's first await
Serve(rq) ==
  IF UsesAuthenticateAPI(rq.route) /\ ~authenticateAPI(env, rq.key)
  THEN Respond(rq, 401, "Unauthorized")
  ELSE IF UsesValidateBody(rq.route) /\ ~rq.valid
  THEN Respond(rq, 400, "Validation error")
  ELSE IF UsesValidateSession(rq.route)
  THEN validateSession(rq)
  ELSE RunHandler(rq)

\* Faulty variant: chat.isGroup is not looked at
notAGroupNever(rq, st) == FALSE

\* `if (!chat.isGroup)` on the chat that getChatById() resolved with
notAGroup(rq, st) ==
  rq.route = "clear-group-messages" /\ st.call = "getChatById" /\ ~rq.isGroup

\* The handler resumes after its awaited call came out as o
Continue(rq, o) ==
  LET st == rq.program[rq.step]
      r == [rq EXCEPT !.timedOut = @ \/ o = "timeout", !.last = o]
  IN  IF o \in {"error", "timeout"} THEN Respond(r, st.onError, "failed")
      ELSE IF o = "empty" /\ st.onEmpty # 0 THEN Respond(r, st.onEmpty, "failed")
      ELSE IF notAGroup(r, st) THEN Respond(r, 400, "Chat is not a group")
      ELSE IF r.step < Len(r.program) THEN StartStep(r, r.step + 1)
      ELSE Respond([r EXCEPT !.messageId = r.route \in {"send-text", "send-media"}],
                   200, "ok")

GoodKey == <<"key">>
BadKey == <<"wrong">>

RouteEnvs ==
  {[BaseEnv EXCEPT !.PROXY_SERVER = p, !.WHATSAPP_API_KEY = w] :
     p \in {Unset, <<"http://proxy:8000">>}, w \in {Unset, GoodKey}}

NewRequest(r, key, valid, reply, media, group) ==
  [stage |-> "new", route |-> r, key |-> key, valid |-> valid,
   reply |-> reply, media |-> media, isGroup |-> group,
   client |-> client, clientReady |-> clientReady,
   hasInfo |-> HasInfo(client), readSession |-> FALSE,
   last |-> "none", messageId |-> FALSE,
   program |-> Program(r, reply, media), step |-> 0,
   g |-> NewGuard(0, FALSE), status |-> 0, msg |-> "",
   backendCalls |-> 0, timedOut |-> FALSE]

\* A request arrives; group is whether its chatId denotes a group chat.
\* req.client and req.clientReady are set from the module
\* variables, then the route's middlewares and handler run to the first await
Request(r, key, valid, reply, media, group) ==
  /\ Running
  /\ req.stage \in {"none", "done"}
  /\ req' = Serve(NewRequest(r, key, valid, reply, media, group))
  /\ UNCHANGED <<env, client, clientReady, restartTimer, timers,
                 watchdogInterval, watchdogs, probe, hung, inst, nClients,
                 destroying, creating, crashed, hist, inbound, webhook,
                 delivery, sm, proc>>

\* The awaited call settles: resolved with a value, resolved with nothing,
\* or rejected. The handler resumes unless the race was already decided.
BackendSettles(o) ==
  /\ Running
  /\ req.stage \in {"call", "done"}
  /\ req.step > 0
  /\ req.g.op = "pending"
  /\ LET rq == [req EXCEPT !.g = OperationSettles(req.g, o)]
     IN  req' = IF req.stage = "call" /\ req.g.outcome = "none"
                THEN Continue(rq, rq.g.outcome)
                ELSE rq
  /\ UNCHANGED <<env, client, clientReady, restartTimer, timers,
                 watchdogInterval, watchdogs, probe, hung, inst, nClients,
                 destroying, creating, crashed, hist, inbound, webhook,
                 delivery, sm, proc>>

\* The deadline timer of the call fires
DeadlinePasses ==
  /\ Running
  /\ req.stage \in {"call", "done"}
  /\ req.step > 0
  /\ req.g.timer = "armed"
  /\ LET rq == [req EXCEPT !.g = DeadlineFires(req.g)]
     IN  req' = IF req.stage = "call" /\ req.g.outcome = "none"
                THEN Continue(rq, rq.g.outcome)
                ELSE rq
  /\ UNCHANGED <<env, client, clientReady, restartTimer, timers,
                 watchdogInterval, watchdogs, probe, hung, inst, nClients,
                 destroying, creating, crashed, hist, inbound, webhook,
                 delivery, sm, proc>>

InitRoutes == \E e \in RouteEnvs : Loaded(e, Off)

NextRoutes ==
  \/ ProxySettle
  \/ \E k \in Ids : Ready(k)
  \/ \E k \in Ids : ClientDisconnected(k)
  \/ \E r \in Routes, key \in {Unset, GoodKey, BadKey}, valid \in BOOLEAN,
        reply \in BOOLEAN, media \in {"http", "inline"},
        group \in BOOLEAN :
       /\ group \/ r = "clear-group-messages"
       /\ Request(r, key, valid, reply, media, group)
  \/ \E o \in {"value", "empty", "error"} : BackendSettles(o)
  \/ DeadlinePasses

SpecRoutes == InitRoutes /\ [][NextRoutes]_vars

\* Timers fire. Nothing makes a backend call settle.
FairRoutes == SpecRoutes /\ WF_vars(DeadlinePasses)

\* ------------------------------------------------------- SessionManager
SessionIds == {"a", "b"}
NoSession == [status |-> "none"]

\* parseInt(process.env.SESSION_TIMEOUT) || 300000, in units of Date.now()
SessionTimeout == 1

\* A Client object: the clientId it was constructed for, its state (init
\* while initialize() is pending, ready once it resolved, failed once it
\* rejected, gone after 'disconnected', destroyed once destroy() was called
\* on it), client.info, a 'qr' listener parked on qrcode.toDataURL(), and the
\* restoreExistingSessions() run that constructed it (0: a caller did).
NoClientObject ==
  [id |-> "", state |-> "none", info |-> FALSE, rendering |-> FALSE, run |-> 0]

NoResult ==
  [op |-> "none", id |-> "", skip |-> FALSE, outcome |-> "", client |-> 0,
   size |-> 0, had |-> FALSE, flip |-> FALSE]

\* new SessionManager(), before restoreExistingSessions() is called. now is
\* the reading of Date.now(); clients are the Client objects constructed;
\* pending the createSession() calls awaiting client.initialize(); restoring
\* the session directories restoreExistingSessions() has still to visit, of
\* the directories dirs on disk, attempted those it has visited in its run
\* number runs; closing the destroySession() calls awaiting the backend;
\* sending the sendMessage() calls awaiting client.sendMessage();
\* last the outcome of the latest call.
NewManager(max) ==
  [made |-> TRUE, maxSessions |-> max, sessionTimeout |-> SessionTimeout,
   now |-> 0,
   sessions |-> [id \in SessionIds |-> NoSession],
   qrCodes |-> {},
   built |-> 0,
   clients |-> [c \in 1..MaxBuilt |-> NoClientObject],
   pending |-> {},
   dirs |-> <<>>,
   restoring |-> <<>>,
   attempted |-> <<>>,
   runs |-> 0,
   closing |-> {},
   sending |-> {},
   last |-> NoResult]

\* this.sessions.size
Size(m) == Cardinality({id \in SessionIds : m.sessions[id] # NoSession})

\* What a createSession() call returned or threw, with this.sessions.size
\* and this.sessions.has(clientId) as the call found them
Outcome(m, id, skip, what) ==
  [op |-> "createSession", id |-> id, skip |-> skip, outcome |-> what,
   client |-> 0, size |-> Size(m), had |-> m.sessions[id] # NoSession,
   flip |-> ~m.last.flip]

\* What a call of another method returned or threw
Did(m, op, id, c, what) ==
  [op |-> op, id |-> id, skip |-> FALSE, outcome |-> what, client |-> c,
   size |-> 0, had |-> FALSE, flip |-> ~m.last.flip]

\* Faulty variant: the count is not compared with maxSessions
createSessionUnlimited(m, id, skip, restore) ==
  LET c == m.built + 1
  IN  [m EXCEPT
         !.built = c,
         !.clients[c] = [NoClientObject EXCEPT
                           !.id = id, !.state = "init",
                           !.run = IF restore THEN m.runs ELSE 0],
         !.sessions[id] = [status |-> "initializing", client |-> c,
                           createdAt |-> m.now, lastActivity |-> m.now],
         !.pending = @ \cup {[id |-> id, client |-> c, restore |-> restore]},
         !.last = Outcome(m, id, skip, "initializing")]

\* createSession from the existence test on, up to `await client.initialize()`
createSessionUnchecked(m, id, skip, restore) ==
  IF Size(m) >= m.maxSessions
  THEN [m EXCEPT !.last = Outcome(m, id, skip, "limit reached")]
  ELSE LET c == m.built + 1
       IN  [m EXCEPT
              !.built = c,
              !.clients[c] = [NoClientObject EXCEPT
                                !.id = id, !.state = "init",
                                !.run = IF restore THEN m.runs ELSE 0],
              !.sessions[id] = [status |-> "initializing", client |-> c,
                                createdAt |-> m.now, lastActivity |-> m.now],
              !.pending = @ \cup {[id |-> id, client |-> c, restore |-> restore]},
              !.last = Outcome(m, id, skip, "initializing")]

\* Faulty variant: the existence test is skipped whatever skipExistingCheck
createSessionReplaces(m, id, skip, restore) ==
  createSessionUnchecked(m, id, skip, restore)

\* createSession(clientId, skipExistingCheck) up to its first await
createSession(m, id, skip, restore) ==
  IF ~skip /\ m.sessions[id] # NoSession
  THEN [m EXCEPT !.last = Outcome(m, id, skip, "already exists")]
  ELSE createSessionUnchecked(m, id, skip, restore)

\* The for loop of restoreExistingSessions(): createSession(clientId, true)
\* for the next directory; a synchronous throw is caught and the loop goes on
RECURSIVE restoreLoop(_)
restoreLoop(m) ==
  IF m.restoring = <<>> THEN m
  ELSE LET id == Head(m.restoring)
           n == createSession([m EXCEPT !.restoring = Tail(@),
                                        !.attempted = Append(@, id)],
                              id, TRUE, TRUE)
       IN  IF n.last.outcome = "initializing" THEN n ELSE restoreLoop(n)

\* Faulty variant: a createSession() that rejects ends the loop
restoreResumeStops(m, ok) ==
  IF ok THEN restoreLoop(m) ELSE [m EXCEPT !.restoring = <<>>]

\* `await this.createSession(clientId, true)` settles in the loop: resolved,
\* or rejected into the catch that logs, the next directory is visited
restoreResume(m, ok) == restoreLoop(m)

\* restoreExistingSessions() up to its first await: the directories are read
\* and the loop is entered
restoreExistingSessions(m, dirs) ==
  restoreLoop([m EXCEPT !.dirs = dirs, !.restoring = dirs,
                        !.attempted = <<>>, !.runs = @ + 1])

\* The constructor, with restoreExistingSessions() run up to its first await
NewSessionManager(max, dirs) ==
  /\ ~sm.made
  /\ sm' = restoreExistingSessions(NewManager(max), dirs)
  /\ UNCHANGED <<env, client, clientReady, restartTimer, timers,
                 watchdogInterval, watchdogs, probe, hung, inst, nClients,
                 destroying, creating, crashed, hist, inbound, webhook,
                 delivery, req, proc>>

\* No restoreExistingSessions() run is under way
RestoreOver(m) ==
  m.restoring = <<>> /\ \A p \in m.pending : ~p.restore

\* restoreExistingSessions() is called again after its first run is over;
\* the session directories are the ones of the first run
RestoreExistingSessions ==
  /\ sm.made
  /\ sm.runs < MaxRuns
  /\ RestoreOver(sm)
  /\ sm.built < MaxBuilt
  /\ sm' = restoreExistingSessions(sm, sm.dirs)
  /\ UNCHANGED <<env, client, clientReady, restartTimer, timers,
                 watchdogInterval, watchdogs, probe, hung, inst, nClients,
                 destroying, creating, crashed, hist, inbound, webhook,
                 delivery, req, proc>>

\* A caller invokes createSession(id)
CreateSession(id) ==
  /\ sm.made
  /\ sm.built < MaxBuilt
  /\ sm' = createSession(sm, id, FALSE, FALSE)
  /\ UNCHANGED <<env, client, clientReady, restartTimer, timers,
                 watchdogInterval, watchdogs, probe, hung, inst, nClients,
                 destroying, creating, crashed, hist, inbound, webhook,
                 delivery, req, proc>>

\* `await client.initialize()` of a createSession() call settles. Resolved:
\* this.sessions.get(clientId).status = 'initialized', which throws into the
\* catch when the entry is gone. Rejected, or thrown: this.sessions.delete(
\* clientId) and the call throws. A restoring call then resumes the loop.
InitializeSettles(p, ok) ==
  /\ sm.made
  /\ p \in sm.pending
  /\ (p.restore /\ sm.restoring # <<>>) => sm.built < MaxBuilt
  /\ LET done == ok /\ sm.sessions[p.id] # NoSession
         m1 == [sm EXCEPT
                  !.pending = @ \ {p},
                  !.clients[p.client].state =
                    IF @ # "init" THEN @ ELSE IF ok THEN "ready" ELSE "failed",
                  !.sessions[p.id] =
                    IF done THEN [@ EXCEPT !.status = "initialized"]
                    ELSE NoSession]
     IN  sm' = IF p.restore THEN restoreResume(m1, done) ELSE m1
  /\ UNCHANGED <<env, client, clientReady, restartTimer, timers,
                 watchdogInterval, watchdogs, probe, hung, inst, nClients,
                 destroying, creating, crashed, hist, inbound, webhook,
                 delivery, req, proc>>

\* 'disconnected' listener of Client c: this.sessions.delete(clientId);
\* this.qrCodes.delete(clientId)
SessionDisconnected(c) ==
  /\ sm.made
  /\ sm.clients[c].state = "ready"
  /\ sm' = [sm EXCEPT !.clients[c].state = "gone",
                      !.sessions[sm.clients[c].id] = NoSession,
                      !.qrCodes = @ \ {sm.clients[c].id}]
  /\ UNCHANGED <<env, client, clientReady, restartTimer, timers,
                 watchdogInterval, watchdogs, probe, hung, inst, nClients,
                 destroying, creating, crashed, hist, inbound, webhook,
                 delivery, req, proc>>

\* Time passes: Date.now() reads a later value
Tick ==
  /\ sm.made
  /\ sm.now < MaxNow
  /\ sm' = [sm EXCEPT !.now = @ + 1]
  /\ UNCHANGED <<env, client, clientReady, restartTimer, timers,
                 watchdogInterval, watchdogs, probe, hung, inst, nClients,
                 destroying, creating, crashed, hist, inbound, webhook,
                 delivery, req, proc>>

\* Faulty variant: the lookup leaves lastActivity as it was
getSessionNoStamp(m, id) ==
  IF m.sessions[id] = NoSession
  THEN [m EXCEPT !.last = Did(m, "getSession", id, 0, "not found")]
  ELSE [m EXCEPT !.last = Did(m, "getSession", id, m.sessions[id].client,
                              "found")]

\* getSession(clientId): throws for an absent id, else stamps lastActivity
getSession(m, id) ==
  IF m.sessions[id] = NoSession
  THEN [m EXCEPT !.last = Did(m, "getSession", id, 0, "not found")]
  ELSE [m EXCEPT !.sessions[id].lastActivity = m.now,
                 !.last = Did(m, "getSession", id, m.sessions[id].client,
                              "found")]

\* The object getSessionStatus(clientId) returns
getSessionStatus(m, id) ==
  IF m.sessions[id] = NoSession
  THEN [exists |-> FALSE, status |-> "none", ready |-> FALSE, hasQR |-> FALSE,
        createdAt |-> 0, lastActivity |-> 0]
  ELSE [exists |-> TRUE,
        status |-> m.sessions[id].status,
        ready |-> m.clients[m.sessions[id].client].info,
        hasQR |-> id \in m.qrCodes,
        createdAt |-> m.sessions[id].createdAt,
        lastActivity |-> m.sessions[id].lastActivity]

\* The object getSessionsStatus() returns
getSessionsStatus(m) ==
  [count |-> Size(m), maxSessions |-> m.maxSessions,
   sessions |-> [id \in {i \in SessionIds : m.sessions[i] # NoSession} |->
                   getSessionStatus(m, id)]]

\* A destroySession(clientId) call parked on `await session.client.logout()`
closeCall(m, id, by) ==
  [id |-> id, client |-> m.sessions[id].client, stage |-> "logout", by |-> by]

\* destroySession(clientId) up to `await session.client.logout()`
destroySession(m, id, by) ==
  IF m.sessions[id] = NoSession
  THEN [m EXCEPT !.last = Did(m, "destroySession", id, 0, "not found")]
  ELSE [m EXCEPT !.closing = @ \cup {closeCall(m, id, by)}]

\* Faulty variant: the entries stay when a backend call failed
destroyEndsKeepsOnFailure(m, d, ok) ==
  [m EXCEPT
     !.closing = @ \ {d},
     !.sessions[d.id] = IF ok THEN NoSession ELSE @,
     !.qrCodes = IF ok THEN @ \ {d.id} ELSE @,
     !.last = [Did(m, "destroySession", d.id, d.client, "destroyed")
                 EXCEPT !.had = d.id \in m.qrCodes]]

\* destroySession after its try block, left normally or through the catch:
\* this.sessions.delete(clientId); this.qrCodes.delete(clientId); return.
\* The result notes whether a QR code was stored when the call got here.
destroyEnds(m, d, ok) ==
  [m EXCEPT
     !.closing = @ \ {d},
     !.sessions[d.id] = NoSession,
     !.qrCodes = @ \ {d.id},
     !.last = [Did(m, "destroySession", d.id, d.client, "destroyed")
                 EXCEPT !.had = d.id \in m.qrCodes]]

\* Faulty variant: a session idle for exactly the timeout counts as inactive
isInactiveInclusive(m, id, now) ==
  now - m.sessions[id].lastActivity >= m.sessionTimeout

\* The test of cleanupInactiveSessions() on one entry
isInactive(m, id, now) == now - m.sessions[id].lastActivity > m.sessionTimeout

\* cleanupInactiveSessions(): destroySession(clientId) is called, and runs
\* up to its first await, for each entry that is inactive
cleanupInactiveSessions(m) ==
  [m EXCEPT
     !.closing = @ \cup
       {closeCall(m, id, "sweep") :
          id \in {i \in SessionIds :
                    m.sessions[i] # NoSession /\ isInactive(m, i, m.now)}},
     !.last = Did(m, "cleanupInactiveSessions", "", 0, "swept")]

\* A caller invokes getSession(id)
GetSession(id) ==
  /\ sm.made
  /\ sm' = getSession(sm, id)
  /\ UNCHANGED <<env, client, clientReady, restartTimer, timers,
                 watchdogInterval, watchdogs, probe, hung, inst, nClients,
                 destroying, creating, crashed, hist, inbound, webhook,
                 delivery, req, proc>>

\* A caller invokes getSessionStatus(id)
GetSessionStatus(id) ==
  /\ sm.made
  /\ sm' = [sm EXCEPT !.last =
              Did(sm, "getSessionStatus", id, 0,
                  IF getSessionStatus(sm, id).exists THEN "exists"
                  ELSE "absent")]
  /\ UNCHANGED <<env, client, clientReady, restartTimer, timers,
                 watchdogInterval, watchdogs, probe, hung, inst, nClients,
                 destroying, creating, crashed, hist, inbound, webhook,
                 delivery, req, proc>>

\* A caller invokes getSessionsStatus()
GetSessionsStatus ==
  /\ sm.made
  /\ sm' = [sm EXCEPT !.last =
              Did(sm, "getSessionsStatus", "", 0,
                  IF getSessionsStatus(sm).count = 0 THEN "absent"
                  ELSE "exists")]
  /\ UNCHANGED <<env, client, clientReady, restartTimer, timers,
                 watchdogInterval, watchdogs, probe, hung, inst, nClients,
                 destroying, creating, crashed, hist, inbound, webhook,
                 delivery, req, proc>>

\* A caller invokes destroySession(id)
DestroySession(id) ==
  /\ sm.made
  /\ Cardinality(sm.closing) < MaxClosing
  /\ sm' = destroySession(sm, id, "caller")
  /\ UNCHANGED <<env, client, clientReady, restartTimer, timers,
                 watchdogInterval, watchdogs, probe, hung, inst, nClients,
                 destroying, creating, crashed, hist, inbound, webhook,
                 delivery, req, proc>>

\* `await session.client.logout()` settles. Resolved: session.client.destroy()
\* is called. Rejected: the catch logs and the function goes to its end.
LogoutSettles(d, ok) ==
  /\ sm.made
  /\ d \in sm.closing /\ d.stage = "logout"
  /\ sm' = IF ok
           THEN [sm EXCEPT !.closing = (@ \ {d}) \cup {[d EXCEPT !.stage = "destroy"]},
                           !.clients[d.client].state = "destroyed"]
           ELSE destroyEnds(sm, d, FALSE)
  /\ UNCHANGED <<env, client, clientReady, restartTimer, timers,
                 watchdogInterval, watchdogs, probe, hung, inst, nClients,
                 destroying, creating, crashed, hist, inbound, webhook,
                 delivery, req, proc>>

\* `await session.client.destroy()` settles, resolved or rejected
SessionDestroySettles(d, ok) ==
  /\ sm.made
  /\ d \in sm.closing /\ d.stage = "destroy"
  /\ sm' = destroyEnds(sm, d, ok)
  /\ UNCHANGED <<env, client, clientReady, restartTimer, timers,
                 watchdogInterval, watchdogs, probe, hung, inst, nClients,
                 destroying, creating, crashed, hist, inbound, webhook,
                 delivery, req, proc>>

\* A caller invokes cleanupInactiveSessions()
CleanupInactiveSessions ==
  /\ sm.made
  /\ Cardinality(cleanupInactiveSessions(sm).closing) <= MaxClosing
  /\ sm' = cleanupInactiveSessions(sm)
  /\ UNCHANGED <<env, client, clientReady, restartTimer, timers,
                 watchdogInterval, watchdogs, probe, hung, inst, nClients,
                 destroying, creating, crashed, hist, inbound, webhook,
                 delivery, req, proc>>

\* Faulty variant: client.info is not tested
sendMessageAnyState(m, id) ==
  LET g == getSession(m, id)
      c == m.sessions[id].client
  IN  IF g.last.outcome = "not found"
      THEN [m EXCEPT !.last = Did(m, "sendMessage", id, 0, "not found")]
      ELSE [g EXCEPT !.sending = @ \cup {[id |-> id, client |-> c]},
                     !.last = Did(m, "sendMessage", id, c, "sending")]

\* sendMessage(clientId, phoneNumber, message) up to
\* `await client.sendMessage(...)`: getClient() is getSession(), which throws
\* for an absent id and stamps lastActivity otherwise; then client.info is
\* tested
sendMessage(m, id) ==
  LET g == getSession(m, id)
      c == m.sessions[id].client
  IN  IF g.last.outcome = "not found"
      THEN [m EXCEPT !.last = Did(m, "sendMessage", id, 0, "not found")]
      ELSE IF ~m.clients[c].info
      THEN [g EXCEPT !.last = Did(m, "sendMessage", id, c, "not ready")]
      ELSE [g EXCEPT !.sending = @ \cup {[id |-> id, client |-> c]},
                     !.last = Did(m, "sendMessage", id, c, "sending")]

\* sendMessage after `await client.sendMessage(...)`: resolved,
\* this.getSession(clientId).lastActivity = Date.now(), which throws when
\* the entry is gone; a rejection or that throw is logged and thrown on
sendMessageEnds(m, s, ok) ==
  LET g == getSession(m, s.id)
      done == ok /\ g.last.outcome = "found"
  IN  [(IF done THEN g ELSE m) EXCEPT
         !.sending = @ \ {s},
         !.last = Did(m, "sendMessage", s.id, s.client,
                      IF done THEN "sent" ELSE "failed")]

\* A caller invokes sendMessage(id, ...)
SendMessage(id) ==
  /\ sm.made
  /\ sm' = sendMessage(sm, id)
  /\ UNCHANGED <<env, client, clientReady, restartTimer, timers,
                 watchdogInterval, watchdogs, probe, hung, inst, nClients,
                 destroying, creating, crashed, hist, inbound, webhook,
                 delivery, req, proc>>

\* `await client.sendMessage(chatId, message, options)` settles
SendSettles(s, ok) ==
  /\ sm.made
  /\ s \in sm.sending
  /\ sm' = sendMessageEnds(sm, s, ok)
  /\ UNCHANGED <<env, client, clientReady, restartTimer, timers,
                 watchdogInterval, watchdogs, probe, hung, inst, nClients,
                 destroying, creating, crashed, hist, inbound, webhook,
                 delivery, req, proc>>

\* Client c emits events: initialize() was called on it, and it was neither
\* destroyed nor disconnected
Emits(c) == sm.made /\ sm.clients[c].state \in {"init", "ready"}

\* 'qr' listener of Client c up to `await qrcode.toDataURL(qr)`
Qr(c) ==
  /\ Emits(c)
  /\ ~sm.clients[c].info
  /\ ~sm.clients[c].rendering
  /\ sm' = [sm EXCEPT !.clients[c].rendering = TRUE]
  /\ UNCHANGED <<env, client, clientReady, restartTimer, timers,
                 watchdogInterval, watchdogs, probe, hung, inst, nClients,
                 destroying, creating, crashed, hist, inbound, webhook,
                 delivery, req, proc>>

\* qrcode.toDataURL(qr) settles in the 'qr' listener of Client c. Resolved:
\* this.qrCodes.set(clientId, ...). Rejected: logged.
RenderSettles(c, ok) ==
  /\ sm.made
  /\ sm.clients[c].rendering
  /\ sm' = [sm EXCEPT !.clients[c].rendering = FALSE,
                      !.qrCodes = IF ok THEN @ \cup {sm.clients[c].id} ELSE @]
  /\ UNCHANGED <<env, client, clientReady, restartTimer, timers,
                 watchdogInterval, watchdogs, probe, hung, inst, nClients,
                 destroying, creating, crashed, hist, inbound, webhook,
                 delivery, req, proc>>

\* 'authenticated' and 'auth_failure' listeners of Client c:
\* this.qrCodes.delete(clientId)
AuthEvent(c) ==
  /\ Emits(c)
  /\ ~sm.clients[c].info
  /\ sm' = [sm EXCEPT !.qrCodes = @ \ {sm.clients[c].id}]
  /\ UNCHANGED <<env, client, clientReady, restartTimer, timers,
                 watchdogInterval, watchdogs, probe, hung, inst, nClients,
                 destroying, creating, crashed, hist, inbound, webhook,
                 delivery, req, proc>>

\* 'ready' listener of Client c, client.info being set by then:
\* this.qrCodes.delete(clientId)
SessionReadyEvent(c) ==
  /\ Emits(c)
  /\ ~sm.clients[c].info
  /\ sm' = [sm EXCEPT !.clients[c].info = TRUE,
                      !.qrCodes = @ \ {sm.clients[c].id}]
  /\ UNCHANGED <<env, client, clientReady, restartTimer, timers,
                 watchdogInterval, watchdogs, probe, hung, inst, nClients,
                 destroying, creating, crashed, hist, inbound, webhook,
                 delivery, req, proc>>

InitSessions == Loaded(BaseEnv, Off)

SessionDirs == {<<>>, <<"a">>, <<"a", "b">>, <<"b", "a">>}

NextSessions ==
  \/ \E max \in 1..2, dirs \in SessionDirs : NewSessionManager(max, dirs)
  \/ RestoreExistingSessions
  \/ \E id \in SessionIds : CreateSession(id)
  \/ \E p \in sm.pending, ok \in BOOLEAN : InitializeSettles(p, ok)
  \/ \E c \in 1..MaxBuilt : SessionDisconnected(c)
  \/ Tick

SpecSessions == InitSessions /\ [][NextSessions]_vars

\* The registry as its callers read and sweep it
NextIdle ==
  \/ \E max \in 1..2 : NewSessionManager(max, <<>>)
  \/ \E id \in SessionIds : CreateSession(id)
  \/ \E p \in sm.pending, ok \in BOOLEAN : InitializeSettles(p, ok)
  \/ \E id \in SessionIds : GetSession(id)
  \/ \E id \in SessionIds : GetSessionStatus(id)
  \/ GetSessionsStatus
  \/ CleanupInactiveSessions
  \/ \E d \in sm.closing, ok \in BOOLEAN : LogoutSettles(d, ok)
  \/ \E d \in sm.closing, ok \in BOOLEAN : SessionDestroySettles(d, ok)
  \/ Tick

SpecIdle == InitSessions /\ [][NextIdle]_vars

\* Time passes and backend calls that were made settle. No timer or interval
\* of the program calls cleanupInactiveSessions(), and no caller has to.
FairIdle ==
  /\ SpecIdle
  /\ WF_vars(Tick)
  /\ WF_vars(\E p \in sm.pending : InitializeSettles(p, TRUE))
  /\ WF_vars(\E d \in sm.closing, ok \in BOOLEAN : LogoutSettles(d, ok))
  /\ WF_vars(\E d \in sm.closing, ok \in BOOLEAN : SessionDestroySettles(d, ok))

\* The pairing of session "a": the events of its Clients, the rendering of
\* the QR image, and its destruction
NextPairing ==
  \/ NewSessionManager(1, <<>>)
  \/ CreateSession("a")
  \/ \E p \in sm.pending, ok \in BOOLEAN : InitializeSettles(p, ok)
  \/ \E c \in 1..MaxBuilt : Qr(c)
  \/ \E c \in 1..MaxBuilt, ok \in BOOLEAN : RenderSettles(c, ok)
  \/ \E c \in 1..MaxBuilt : AuthEvent(c)
  \/ \E c \in 1..MaxBuilt : SessionReadyEvent(c)
  \/ \E c \in 1..MaxBuilt : SessionDisconnected(c)
  \/ DestroySession("a")
  \/ \E d \in sm.closing, ok \in BOOLEAN : LogoutSettles(d, ok)
  \/ \E d \in sm.closing, ok \in BOOLEAN : SessionDestroySettles(d, ok)

SpecPairing == InitSessions /\ [][NextPairing]_vars

\* Sessions becoming ready and callers sending through them
NextSend ==
  \/ \E max \in 1..2 : NewSessionManager(max, <<>>)
  \/ \E id \in SessionIds : CreateSession(id)
  \/ \E p \in sm.pending, ok \in BOOLEAN : InitializeSettles(p, ok)
  \/ \E c \in 1..MaxBuilt : SessionReadyEvent(c)
  \/ \E c \in 1..MaxBuilt : SessionDisconnected(c)
  \/ \E id \in SessionIds : SendMessage(id)
  \/ \E s \in sm.sending, ok \in BOOLEAN : SendSettles(s, ok)

SpecSend == InitSessions /\ [][NextSend]_vars

\* The same program, with the burst of 'disconnected' events observed
InitBurst == \E e \in SupervisorEnvs : Loaded(e, Observing)

\* The supervisor started with a proxy address configured
InitProxy == \E e \in ProxyEnvs : Loaded(e, Off)

SpecProxy == InitProxy /\ [][Next]_vars

SpecBurst == InitBurst /\ [][Next]_vars

\* Timers fire and settled promises run their continuations: the watchdog
\* interval, the probe (bounded by its 10 s timeout), the restart timeout,
\* the proxy helper, and destroy() once the browser is closed or was never
\* launched. Nothing makes a backend close its browser.
FairSpec ==
  /\ Spec
  /\ WF_vars(WatchdogTick)
  /\ WF_vars(ProbeSettles)
  /\ WF_vars(RestartTimerFires)
  /\ WF_vars(ProxySettle)
  /\ \A k \in Ids : WF_vars(DestroySettles(k))

\* ------------------------------------------------------------ claims
LiveClients == {k \in Ids : Live(k)}

FullHandlerSet ==
  [ev \in Events |->
     IF ev = "message" /\ env.HANDLE_MESSAGES = <<"false">> THEN 0 ELSE 1]

\* C1: at most one restart timeout is pending at any time, whatever failure
\* signals arrive; restartTimer is non-null exactly while that one is pending,
\* so a scheduleRestart() call made meanwhile arms nothing.
C1_AtMostOneRestartTimer == timers <= 1 /\ (restartTimer <=> timers = 1)

\* Two 'disconnected' events and a failure signal of another kind have come
\* since the timeout was armed, and it is still the only one pending.
C1_Witness ==
  /\ hist.on /\ hist.disc >= 2 /\ hist.other /\ hist.nDestroy = 0
  /\ timers = 1

\* C2: after a burst of three 'disconnected' events on the Ready client, all
\* within one debounce window, and no other failure signal from a backend,
\* destroy() is called at most once and at most one new Client is constructed
\* (the one built at startup plus one).
C2_ExactlyOneCycle ==
  (hist.on /\ hist.disc = 3 /\ hist.burstOK /\ ~hist.other)
    => (hist.nDestroy <= 1 /\ nClients <= 2)

\* C3: at most one Client that was constructed and not torn down exists.
C3_AtMostOneLiveClient == Cardinality(LiveClients) <= 1

\* C5: a failed initialize() is absorbed: the process survives it and a
\* restart is scheduled.
C5_InitFailureAbsorbed ==
  \A k \in Ids : inst[k].phase = "failed" => (~crashed /\ restartTimer)

\* C6: the module-level reference is the newest Client constructed, every
\* Client constructed carries exactly one listener per event (the 'message'
\* listener when inbound handling is enabled), and with handling enabled an
\* inbound event that passes the filters is forwarded exactly once.
C6_HandlersRearmed ==
  /\ client = nClients
  /\ \A k \in 1..nClients : inst[k].handlers = FullHandlerSet
  /\ (inbound.src # 0 /\ env.HANDLE_MESSAGES # <<"false">>)
       => Len(webhook) = 1

\* An inbound event on a Client built by a restart was forwarded once.
C6_Witness ==
  /\ nClients >= 2 /\ inbound.src = client /\ inbound.src >= 2
  /\ inst[client].phase = "ready"
  /\ Len(webhook) = 1

BackendStuck ==
  /\ hung /\ clientReady /\ ~crashed
  /\ client = 1 /\ nClients = 1 /\ inst[1].phase = "ready"

\* C4: once the Ready client's backend has stopped responding, a restart
\* cycle eventually runs to the construction of a new Client, unless the
\* process dies or as many restart callbacks are in flight as the model
\* follows.
C4_WatchdogRestarts ==
  BackendStuck ~> (nClients > 1 \/ crashed \/ nClients + Owed >= MaxClients)

\* The group ids that ALLOWED_GROUPS names (each a name and "@g.us"), or the
\* built-in default when it is not set
ConfiguredGroups ==
  IF env.ALLOWED_GROUPS = Unset THEN {DefaultAllowedGroup}
  ELSE {SubSeq(env.ALLOWED_GROUPS, i, i + 1) :
          i \in {j \in 1..(Len(env.ALLOWED_GROUPS) - 1) :
                   env.ALLOWED_GROUPS[j + 1] = "@g.us"}}

FromGroup == inbound.src # 0 /\ "@g.us" \in {inbound.msg.from[i] : i \in 1..Len(inbound.msg.from)}

OnePostFor(m) ==
  /\ Len(webhook) = 1
  /\ webhook[1].body.chat_id = JsonStr(m.from)
  /\ webhook[1].body.is_group = JsonBool(TRUE)

\* C7: an inbound message whose sender id has no '@g.us' leads to no webhook
\* POST unless ALLOW_PRIVATE_MESSAGES is 'true'.
C7_PrivateFiltered ==
  (inbound.src # 0 /\ ~FromGroup /\ env.ALLOW_PRIVATE_MESSAGES # <<"true">>)
    => webhook = <<>>

\* A private message addressed to the bot, everything else configured, was
\* dropped.
C7_Witness ==
  /\ inbound.src # 0 /\ inbound.msg.from = P1 /\ inbound.msg.to = Bot
  /\ env.ALLOW_PRIVATE_MESSAGES = <<"false">>
  /\ env.HANDLE_MESSAGES = Unset
  /\ env.BOT_PHONE_NUMBER = Bot /\ env.WHATSAPP_API_KEY # Unset
  /\ webhook = <<>>

\* C8 as claimed: a group message leads to no POST when its group is not in
\* the allowed list, and to exactly one POST, with chat_id the event's chat
\* id and is_group true, when it is.
C8_GroupScoping ==
  FromGroup =>
    IF inbound.msg.from \in ConfiguredGroups
    THEN OnePostFor(inbound.msg)
    ELSE webhook = <<>>

\* C8 amended: ... exactly one POST when the group is in the list, inbound
\* handling is enabled, BOT_PHONE_NUMBER and WHATSAPP_API_KEY are set and
\* msg.to is BOT_PHONE_NUMBER; no POST in every other case.
C8_GroupScopingAmended ==
  FromGroup =>
    IF /\ inbound.msg.from \in ConfiguredGroups
       /\ env.HANDLE_MESSAGES # <<"false">>
       /\ env.BOT_PHONE_NUMBER # Unset
       /\ env.WHATSAPP_API_KEY # Unset
       /\ inbound.msg.to = env.BOT_PHONE_NUMBER
    THEN OnePostFor(inbound.msg)
    ELSE webhook = <<>>

\* A message from the second group of a list written "g1, g2" was forwarded.
C8_Witness ==
  /\ FromGroup /\ inbound.msg.from = G2
  /\ env.ALLOWED_GROUPS = G1 \o <<",", " ">> \o G2
  /\ OnePostFor(inbound.msg)

\* C9: a webhook POST is made only for an event whose msg.to equals
\* BOT_PHONE_NUMBER, with BOT_PHONE_NUMBER and WHATSAPP_API_KEY both set.
C9_TargetIdentity ==
  (inbound.src # 0 /\ webhook # <<>>)
    => /\ env.BOT_PHONE_NUMBER # Unset
       /\ env.WHATSAPP_API_KEY # Unset
       /\ inbound.msg.to = env.BOT_PHONE_NUMBER

\* A message from an allowed group, addressed to someone else, was dropped.
C9_Witness ==
  /\ FromGroup /\ inbound.msg.from \in ConfiguredGroups
  /\ env.HANDLE_MESSAGES = Unset
  /\ env.BOT_PHONE_NUMBER = Bot /\ env.WHATSAPP_API_KEY # Unset
  /\ inbound.msg.to = Other
  /\ webhook = <<>>

\* The handler of POST i has run to its end
HandlerDone(i) == delivery[i] \in FetchOutcomes

\* C11: an inbound event leads to at most one webhook POST, also once that
\* POST has come back with a non-2xx status or a network error.
C11_NoRetry ==
  inbound.src # 0 => (Len(webhook) <= 1 /\ Len(delivery) = Len(webhook))

\* The one POST of an event failed and the handler has ended.
C11_Witness ==
  /\ inbound.src # 0
  /\ Len(webhook) = 1
  /\ delivery = <<"non2xx">> \/ delivery = <<"neterr">>

\* C12: the handler of every POST made eventually runs to its end, whether
\* or not the webhook endpoint answers.
C12_DeliveryBounded ==
  (delivery # <<>> /\ ~HandlerDone(1)) ~> (delivery = <<>> \/ HandlerDone(1))

\* C13: the body POSTed for an event that quotes no message, or whose quoted
\* id is missing, has the key replied_message_id, with the value null.
C13_RepliedIdNull ==
  (inbound.src # 0
     /\ (~inbound.msg.hasQuotedMsg \/ inbound.msg.quotedStanzaID = Unset))
    => \A i \in 1..Len(webhook) :
         /\ "replied_message_id" \in DOMAIN webhook[i].body
         /\ webhook[i].body.replied_message_id = JsonNull

\* An event that quotes a message whose id is missing was forwarded.
C13_Witness ==
  /\ inbound.src # 0
  /\ inbound.msg.hasQuotedMsg /\ inbound.msg.quotedStanzaID = Unset
  /\ Len(webhook) = 1
  /\ webhook[1].body.replied_message_id = JsonNull

\* A call of the request being served is under withTimeout or the inline race
Guarded == req.stage \in {"call", "done"} /\ req.step > 0 /\ req.g.ms > 0

\* C14: the outcome withTimeout reports is that of whichever settled first,
\* the operation (its value or error) or the deadline (a timeout error), and
\* what settles later does not change it.
C14_SettlesOnce ==
  Guarded =>
    req.g.outcome = (IF req.g.order = <<>> THEN "none" ELSE req.g.order[1])

\* The deadline passed first and the abandoned operation completed later.
C14_Witness ==
  /\ Guarded
  /\ req.g.clears
  /\ req.g.order = <<"timeout", "value">>
  /\ req.g.outcome = "timeout"

Answered == req.stage = "done"

\* C15: a POST /send-media request waiting on a call is eventually answered
\* (with 504 when the call never settles), unless the process dies.
C15_SendMediaAnswers ==
  (req.stage = "call" /\ req.route = "send-media") ~> (Answered \/ crashed)

\* C16: every backend call a route awaits is under a deadline.
C16_EveryBackendCallGuarded ==
  (req.stage = "call" /\ req.program[req.step].backend) => req.g.ms > 0

\* C17: a request in which a deadline expired is answered with a 5xx status.
C17_TimeoutIs5xx ==
  (Answered /\ req.timedOut) => req.status \in 500..599

\* The session is Ready as the request sees it
SessionReady == req.clientReady /\ req.hasInfo

SendTextAdmitted ==
  /\ req.stage \in {"call", "done"}
  /\ req.route = "send-text"
  /\ authenticateAPI(env, req.key)
  /\ req.valid

\* C18 as claimed: POST /send-text with a valid body calls the backend only
\* when the session is Ready; Ready, it answers 200 with a messageId; not
\* Ready, it answers 'Client is not ready' with no backend call.
C18_SendTextGated ==
  SendTextAdmitted =>
    /\ req.backendCalls > 0 => SessionReady
    /\ Answered =>
         IF SessionReady
         THEN req.status = 200 /\ req.messageId
         ELSE req.msg = "Client is not ready" /\ req.backendCalls = 0

\* C19: a request to any route but health with no key or a wrong key is
\* answered 401 and neither reads the session state nor calls the backend.
C19_AuthEverywhere ==
  (req.stage # "none" /\ req.route # "health" /\ ~authenticateAPI(env, req.key))
    => /\ req.stage = "done" /\ req.status = 401
       /\ ~req.readSession
       /\ req.backendCalls = 0

\* A step is a createSession(id) call without the restore bypass, made
\* while the registry holds an entry for id
CreateOnExisting ==
  /\ sm.made /\ sm'.made
  /\ sm'.last.flip # sm.last.flip
  /\ sm'.last.op = "createSession"
  /\ ~sm'.last.skip
  /\ sm.sessions[sm'.last.id] # NoSession

\* C20: createSession(id) called while an entry for id exists, without the
\* restore bypass, fails with 'already exists' and leaves the registry, its
\* clients and its timestamps as they were.
C20_CreateExistingFails ==
  [][CreateOnExisting =>
       /\ sm'.last.outcome = "already exists"
       /\ sm'.sessions = sm.sessions
       /\ sm'.clients = sm.clients
       /\ sm'.built = sm.built
       /\ sm'.pending = sm.pending]_vars

\* createSession(id) was refused while the entry of id, made at an earlier
\* time, is in the registry.
C20_Witness ==
  /\ sm.made
  /\ sm.last.op = "createSession" /\ ~sm.last.skip
  /\ sm.last.outcome = "already exists"
  /\ sm.sessions[sm.last.id] # NoSession
  /\ sm.sessions[sm.last.id].createdAt < sm.now


\* A step in which createSession() was called and returned or threw
CreateStep ==
  /\ sm.made /\ sm'.made
  /\ sm'.last # sm.last
  /\ sm'.last.op = "createSession"

\* C21: the registry never holds more entries than maxSessions, and a
\* createSession() call that finds maxSessions entries or more is rejected
\* with the limit error.
C21_LimitEnforced ==
  sm.made =>
    /\ Size(sm) <= sm.maxSessions
    /\ (sm.last.op = "createSession" /\ sm.last.size >= sm.maxSessions)
         => sm.last.outcome = "limit reached"

\* C21, amended: the registry never holds more entries than maxSessions, and
\* a createSession() call that finds maxSessions entries or more is rejected:
\* with 'already exists' when the id is registered and the existence test
\* applies, with the limit error otherwise.
C21_LimitEnforcedAmended ==
  sm.made =>
    /\ Size(sm) <= sm.maxSessions
    /\ (sm.last.op = "createSession" /\ sm.last.size >= sm.maxSessions)
         => sm.last.outcome =
              IF ~sm.last.skip /\ sm.last.had
              THEN "already exists" ELSE "limit reached"

\* createSession() for an id that is not registered was refused with the
\* limit error while the registry is full.
C21_Witness ==
  /\ sm.made
  /\ sm.last.op = "createSession" /\ sm.last.outcome = "limit reached"
  /\ ~sm.last.had
  /\ sm.last.size = sm.maxSessions /\ Size(sm) = sm.maxSessions

\* The Client objects constructed for id on which initialize() is pending or
\* has resolved, and which were neither disconnected nor destroyed
LiveFor(id) ==
  {c \in 1..MaxBuilt :
     sm.clients[c].id = id /\ sm.clients[c].state \in {"init", "ready"}}

\* C22: for every session id at most one Client that was constructed and
\* not destroyed exists.
C22_OneClientPerId ==
  sm.made => \A id \in SessionIds : Cardinality(LiveFor(id)) <= 1

\* A step of the second restoreExistingSessions() run in which
\* createSession(id, true) was called for an id whose entry holds the Client
\* the first run constructed
SecondRestoreOfRestored ==
  /\ CreateStep
  /\ sm'.runs = 2
  /\ sm'.last.skip
  /\ sm.sessions[sm'.last.id] # NoSession
  /\ sm.clients[sm.sessions[sm'.last.id].client].run = 1

\* C23: the second restoreExistingSessions() run is refused for each session
\* the first run restored: it constructs no second Client for it and leaves
\* its registry entry as it was.
C23_RestoreTwiceIdempotent ==
  [][SecondRestoreOfRestored =>
       /\ sm'.last.outcome # "initializing"
       /\ sm'.built = sm.built
       /\ sm'.sessions[sm'.last.id] = sm.sessions[sm'.last.id]]_vars

\* C24: restoreExistingSessions() calls createSession() for the session
\* directories in order and skips none, whatever became of the earlier ones:
\* the directories tried and those still to try are always the directories
\* read, so that when the run is over all have been tried.
C24_RestoreTriesAll ==
  sm.made => sm.attempted \o sm.restoring = sm.dirs

\* A run over two directories is over; the Client built for the first one
\* failed to initialize, and a Client was built for the second.
C24_Witness ==
  /\ sm.made /\ RestoreOver(sm)
  /\ Len(sm.dirs) = 2 /\ sm.attempted = sm.dirs
  /\ \E c, k \in 1..MaxBuilt :
       /\ c < k
       /\ sm.clients[c].run = 1 /\ sm.clients[c].id = sm.dirs[1]
       /\ sm.clients[c].state = "failed"
       /\ sm.clients[k].run = 1 /\ sm.clients[k].id = sm.dirs[2]


\* A step in which a destroySession() call threw or returned
DestroyStep ==
  /\ sm.made /\ sm'.made
  /\ sm'.last # sm.last
  /\ sm'.last.op = "destroySession"

\* C25: a destroySession(id) call that found the session leaves, when it
\* returns, no registry entry and no QR code for id, whether the backend
\* calls resolved or rejected; one that throws not-found had no entry to
\* find and changes nothing.
C25_DestroyAlwaysRemoves ==
  [][DestroyStep =>
       IF sm'.last.outcome = "not found"
       THEN /\ sm.sessions[sm'.last.id] = NoSession
            /\ sm'.sessions = sm.sessions
            /\ sm'.qrCodes = sm.qrCodes
            /\ sm'.clients = sm.clients
            /\ sm'.closing = sm.closing
       ELSE /\ sm'.sessions[sm'.last.id] = NoSession
            /\ sm'.last.id \notin sm'.qrCodes]_vars

\* destroySession() returned after logout() rejected, with a QR code stored
\* until then, and neither entry nor QR code is left.
C25_Witness ==
  /\ sm.made
  /\ sm.last.op = "destroySession" /\ sm.last.outcome = "destroyed"
  /\ sm.last.had
  /\ sm.clients[sm.last.client].state # "destroyed"
  /\ sm.sessions[sm.last.id] = NoSession
  /\ sm.last.id \notin sm.qrCodes

\* C26: when destroySession() has returned, destroy() was called on the
\* Client of the session.
C26_DestroyTearsDown ==
  (sm.made /\ sm.last.op = "destroySession" /\ sm.last.outcome = "destroyed")
    => sm.clients[sm.last.client].state = "destroyed"


\* A step in which a getSession(), getSessionStatus() or getSessionsStatus()
\* call returned or threw
ReadStep(ops) ==
  /\ sm.made /\ sm'.made
  /\ sm'.last # sm.last
  /\ sm'.last.op \in ops

\* C27: getSession(id) throws not-found for an absent id and changes
\* nothing, and otherwise sets lastActivity of the entry to the current time
\* and nothing else; getSessionStatus() and getSessionsStatus() change no
\* entry, QR code, Client or pending call.
C27_OnlyGetSessionStamps ==
  [][/\ ReadStep({"getSession"}) =>
          IF sm.sessions[sm'.last.id] = NoSession
          THEN /\ sm'.last.outcome = "not found"
               /\ sm'.sessions = sm.sessions
          ELSE /\ sm'.last.outcome = "found"
               /\ sm'.sessions =
                    [sm.sessions EXCEPT ![sm'.last.id].lastActivity = sm.now]
     /\ ReadStep({"getSession", "getSessionStatus", "getSessionsStatus"}) =>
          /\ sm'.last.op # "getSession" => sm'.sessions = sm.sessions
          /\ sm'.qrCodes = sm.qrCodes
          /\ sm'.clients = sm.clients
          /\ sm'.pending = sm.pending
          /\ sm'.closing = sm.closing]_vars

\* getSession() found a session created at an earlier time and its
\* lastActivity is the current time.
C27_Witness ==
  /\ sm.made
  /\ sm.last.op = "getSession" /\ sm.last.outcome = "found"
  /\ sm.sessions[sm.last.id] # NoSession
  /\ sm.sessions[sm.last.id].createdAt < sm.now
  /\ sm.sessions[sm.last.id].lastActivity = sm.now

\* The sessions a sweep made now has to destroy
Stale(m) ==
  {id \in SessionIds :
     /\ m.sessions[id] # NoSession
     /\ m.sessions[id].lastActivity + m.sessionTimeout < m.now}

\* A step in which cleanupInactiveSessions() ran
SweepStep ==
  /\ sm.made /\ sm'.made
  /\ sm'.last # sm.last
  /\ sm'.last.op = "cleanupInactiveSessions"

C29_IdleSwept ==
  \A id \in SessionIds :
    (sm.made /\ id \in Stale(sm)) ~> (sm.made /\ sm.sessions[id] = NoSession)

\* C30: getSessionStatus() never reports hasQR together with ready.
C30_NoQrWhenReady ==
  sm.made =>
    \A id \in SessionIds :
      ~(getSessionStatus(sm, id).ready /\ getSessionStatus(sm, id).hasQR)


\* A step in which sendMessage() was called and threw or reached
\* client.sendMessage()
SendCallStep ==
  /\ sm.made /\ sm'.made
  /\ sm'.last # sm.last
  /\ sm'.last.op = "sendMessage"
  /\ sm'.last.outcome \in {"not found", "not ready", "sending"}

\* C31: sendMessage(id) throws not-found for an id with no entry, throws
\* not-ready and sends nothing for a session whose status does not report
\* ready, and calls client.sendMessage() otherwise; nothing else starts a
\* send.
C31_SendOnlyWhenReady ==
  [][/\ SendCallStep =>
          LET st == getSessionStatus(sm, sm'.last.id)
          IN  /\ sm'.last.outcome =
                   IF ~st.exists THEN "not found"
                   ELSE IF ~st.ready THEN "not ready" ELSE "sending"
              /\ sm'.last.outcome # "sending" => sm'.sending = sm.sending
     /\ (sm.made /\ sm'.made /\ ~(sm'.sending \subseteq sm.sending)) =>
          /\ SendCallStep
          /\ getSessionStatus(sm, sm'.last.id).ready]_vars

\* sendMessage() was refused as not ready for a session whose initialize()
\* has resolved, and nothing is being sent.
C31_Witness ==
  /\ sm.made
  /\ sm.last.op = "sendMessage" /\ sm.last.outcome = "not ready"
  /\ sm.sessions[sm.last.id] # NoSession
  /\ sm.sessions[sm.last.id].status = "initialized"
  /\ sm.sending = {}

\* C32: POST /clear-group-messages answers a request whose chatId resolved
\* to a chat that is not a group with a 4xx status, and chat.clearMessages()
\* is never called for a chatId that does not denote a group.
C32_ClearOnlyGroups ==
  (req.stage # "none" /\ req.route = "clear-group-messages" /\ ~req.isGroup)
    => /\ ~(req.step > 0 /\ req.program[req.step].call = "clearMessages")
       /\ req.backendCalls <= 1
       /\ (req.stage = "done" /\ req.last = "value")
            => req.status \in 400..499

C32_Witness ==
  /\ req.stage = "done" /\ req.route = "clear-group-messages"
  /\ ~req.isGroup /\ req.last = "value" /\ req.backendCalls = 1
  /\ req.status = 400 /\ req.msg = "Chat is not a group"

\* C33: with PROXY_SERVER set, the createClient() run of every instance made
\* one anonymizeProxy call and launched with what it resolved to (with the
\* address itself when the call failed), except that an address with embedded
\* credentials is never anonymized and is the launch argument as it is.
C33_ProxyInjection ==
  \A k \in Ids :
    (inst[k].phase # "none" /\ env.PROXY_SERVER # Unset)
      => IF hasEmbeddedAuth(env.PROXY_SERVER)
         THEN inst[k].anonymized = 0 /\ inst[k].proxy = env.PROXY_SERVER
         ELSE /\ inst[k].anonymized = 1
              /\ inst[k].proxy \in {anonymizeProxy(env.PROXY_SERVER),
                                    env.PROXY_SERVER}

\* ------------------------------------------------------ navigation guard
WhatsAppWeb == <<"https://web.whatsapp.com">>

\* A URL is its scheme and host tokens followed by the path, which starts
\* with the token "/"
Urls ==
  {<<"https://web.whatsapp.com", "/">>,
   <<"https://web.whatsapp.com", "/", "send">>,
   <<"https://web.whatsapp.com", ".evil.example", "/">>,
   <<"https://evil.example", "/">>}

\* String.prototype.startsWith
StartsWith(s, prefix) ==
  Len(s) >= Len(prefix) /\ SubSeq(s, 1, Len(prefix)) = prefix

\* The origin of a URL: what precedes its path
RECURSIVE Origin(_)
Origin(url) ==
  IF url = <<>> \/ Head(url) = "/" THEN <<>>
  ELSE <<Head(url)>> \o Origin(Tail(url))

\* The 'request' listener of protectNavigation() on request r
protectNavigation(r) ==
  IF r.handled THEN r
  ELSE IF r.navigation /\ ~StartsWith(r.url, WhatsAppWeb)
  THEN [r EXCEPT !.aborts = @ + 1]
  ELSE [r EXCEPT !.continues = @ + 1]

\* protectNavigation(page) on the page of a Ready instance: interception is
\* switched on and the listener registered
ProtectNavigation(k) ==
  /\ Running
  /\ inst[k].phase = "ready"
  /\ k \notin proc.intercepting
  /\ proc' = [proc EXCEPT !.intercepting = @ \cup {k}]
  /\ UNCHANGED <<env, client, clientReady, restartTimer, timers,
                 watchdogInterval, watchdogs, probe, hung, inst, nClients,
                 destroying, creating, crashed, hist, inbound, webhook,
                 delivery, req, sm>>

\* The page of instance k emits 'request': isNavigationRequest() is
\* navigation, mainFrame whether the request is made for the top-level
\* frame, handled whether a listener registered earlier (the library's own)
\* has resolved it
PageRequest(k, url, navigation, mainFrame, handled) ==
  /\ Running
  /\ k \in proc.intercepting
  /\ inst[k].phase = "ready"
  /\ proc' = [proc EXCEPT !.request =
                protectNavigation(
                  [seen |-> TRUE, page |-> k, url |-> url,
                   navigation |-> navigation, mainFrame |-> mainFrame,
                   handled |-> handled, aborts |-> 0, continues |-> 0])]
  /\ UNCHANGED <<env, client, clientReady, restartTimer, timers,
                 watchdogInterval, watchdogs, probe, hung, inst, nClients,
                 destroying, creating, crashed, hist, inbound, webhook,
                 delivery, req, sm>>

NextNavigation ==
  \/ ProxySettle
  \/ \E k \in Ids : Ready(k)
  \/ \E k \in Ids : ProtectNavigation(k)
  \/ \E k \in Ids, url \in Urls, navigation \in BOOLEAN,
        mainFrame \in BOOLEAN, handled \in BOOLEAN :
       PageRequest(k, url, navigation, mainFrame, handled)

SpecNavigation == Init /\ [][NextNavigation]_vars

\* How many times the request was resolved, by any listener
Resolutions(r) == (IF r.handled THEN 1 ELSE 0) + r.aborts + r.continues

\* C34: a request intercepted on a guarded page is resolved exactly once,
\* and the guard aborts it when it is a top-level navigation to an origin
\* other than https://web.whatsapp.com and continues it otherwise.
C34_NavigationGuard ==
  proc.request.seen
    => /\ Resolutions(proc.request) = 1
       /\ ~proc.request.handled
            => (proc.request.aborts = 1
                  <=> /\ proc.request.navigation
                      /\ proc.request.mainFrame
                      /\ Origin(proc.request.url) # WhatsAppWeb)

\* ------------------------------------------------------ graceful shutdown
\* SIGTERM or SIGINT: gracefulShutdown() up to its first await, which is
\* client.destroy() when `client && clientReady`, the 2 s timeout otherwise
Signal ==
  /\ Running
  /\ proc.shutdown = "no"
  /\ proc' = IF client # 0 /\ clientReady
             THEN [proc EXCEPT !.shutdown = "destroying", !.closing = client]
             ELSE [proc EXCEPT !.shutdown = "waiting"]
  /\ UNCHANGED <<env, client, clientReady, restartTimer, timers,
                 watchdogInterval, watchdogs, probe, hung, inst, nClients,
                 destroying, creating, crashed, hist, inbound, webhook,
                 delivery, req, sm>>

\* `await client.destroy()` of gracefulShutdown() settles: resolved once the
\* browser is closed, and the 2 s timeout is awaited; rejected on an
\* instance whose browser is not launched, and the catch calls
\* process.exit(1)
ShutdownDestroySettles ==
  /\ Running
  /\ proc.shutdown = "destroying"
  /\ inst[proc.closing].phase \in {"closed", "init"}
  /\ proc' = [proc EXCEPT
               !.shutdown = IF inst[proc.closing].phase = "closed"
                            THEN "waiting" ELSE "exited",
               !.closing = 0]
  /\ UNCHANGED <<env, client, clientReady, restartTimer, timers,
                 watchdogInterval, watchdogs, probe, hung, inst, nClients,
                 destroying, creating, crashed, hist, inbound, webhook,
                 delivery, req, sm>>

\* The 2 s timeout of gracefulShutdown() fires: process.exit(0)
ShutdownExits ==
  /\ Running
  /\ proc.shutdown = "waiting"
  /\ proc' = [proc EXCEPT !.shutdown = "exited"]
  /\ UNCHANGED <<env, client, clientReady, restartTimer, timers,
                 watchdogInterval, watchdogs, probe, hung, inst, nClients,
                 destroying, creating, crashed, hist, inbound, webhook,
                 delivery, req, sm>>

NextShutdown ==
  \/ ProxySettle
  \/ \E k \in Ids : Ready(k)
  \/ \E k \in Ids : InitFail(k)
  \/ \E k \in Ids : ClientDisconnected(k)
  \/ \E k \in Ids : PageError(k)
  \/ \E k \in Ids : PageClose(k)
  \/ \E k \in Ids : BrowserDisconnected(k)
  \/ RestartTimerFires
  \/ \E k \in Ids : Teardown(k)
  \/ \E k \in Ids : DestroySettles(k)
  \/ Hang
  \/ WatchdogTick
  \/ ProbeSettles
  \/ Signal
  \/ ShutdownDestroySettles
  \/ ShutdownExits

SpecShutdown == Init /\ [][NextShutdown]_vars

\* C35: from the shutdown signal until the process exits, no restart
\* timeout fires and no Client is constructed in place of another: the
\* watchdog interval and the pending restart timeout were cancelled.
C35_ShutdownStopsRestarts ==
  [][proc.shutdown # "no"
       => /\ nClients > 0 => nClients' = nClients
          /\ timers' >= timers]_vars

\* C36: whenever clientReady is true, the current client is an instance that
\* has emitted 'ready' and whose browser has not been closed.
C36_ReadyFlagSound ==
  clientReady => (client # 0 /\ inst[client].phase = "ready")

\* The restart timeout fires and its callback calls destroy() on instance k
RestartDestroys(k) ==
  timers' < timers /\ client = k /\ destroying'[k] > destroying[k]

\* C37: when a restart callback calls destroy() on the current client, the
\* failure signal that armed its timeout was not raised by another instance
\* that had been replaced or was being torn down.
C37_StaleSignalHarmless ==
  [][\A k \in Ids :
       RestartDestroys(k) => (proc.armedBy = 0 \/ proc.armedBy = k)]_vars

\* The createSession() call p completes while the registry entry of its id
\* belongs to a Client that another createSession() call constructed
CompletesBesideNewer(p) ==
  /\ p \in sm.pending /\ p \notin sm'.pending
  /\ sm.sessions[p.id] # NoSession
  /\ sm.sessions[p.id].client # p.client

\* C38: a createSession() call that completes, by success or by failed
\* initialization, leaves alone a registry entry that a later createSession()
\* call for the same id has created.
C38_CompletionSparesNewer ==
  [][\A p \in sm.pending :
       CompletesBesideNewer(p) => sm'.sessions[p.id] = sm.sessions[p.id]]_vars

\* C39: at most one watchdog interval is armed at any time, and it is the
\* one whose handle watchdogInterval holds.
C39_OneWatchdog ==
  /\ watchdogs <= 1
  /\ watchdogInterval <=> watchdogs = 1

C39_Witness == nClients = MaxClients /\ watchdogs = 1

\* ------------------------------------------------------------ group purge
PurgeEnvs ==
  {[BaseEnv EXCEPT !.ENABLE_GROUP_PURGE = <<"true">>, !.PROXY_SERVER = p] :
     p \in {Unset, PlainProxy}}

InitPurge == \E e \in PurgeEnvs : Loaded(e, Off)

\* All group-purge intervals armed
PurgeIntervals == Sum([k \in Ids |-> inst[k].purging])

\* A group-purge interval armed for instance k fires: it returns unless
\* clientReady, else it calls getChats() and clearMessages() through k, the
\* Client its closure holds
PurgeTick(k) ==
  /\ Running
  /\ inst[k].purging > 0
  /\ proc' = IF ~clientReady THEN [proc EXCEPT !.purged = [by |-> 0]]
             ELSE [proc EXCEPT !.purged =
                     [by |-> k, current |-> client, phase |-> inst[k].phase]]
  /\ UNCHANGED <<env, client, clientReady, restartTimer, timers,
                 watchdogInterval, watchdogs, probe, hung, inst, nClients,
                 destroying, creating, crashed, hist, inbound, webhook,
                 delivery, req, sm>>

NextPurge ==
  \/ ProxySettle
  \/ \E k \in Ids : Ready(k)
  \/ \E k \in Ids : ClientDisconnected(k)
  \/ \E k \in Ids : PageClose(k)
  \/ \E k \in Ids : BrowserDisconnected(k)
  \/ RestartTimerFires
  \/ \E k \in Ids : Teardown(k)
  \/ \E k \in Ids : DestroySettles(k)
  \/ \E k \in Ids : PurgeTick(k)

SpecPurge == InitPurge /\ [][NextPurge]_vars

\* C40: at most one group-purge interval is armed at any time, and a purge
\* tick that clears messages does so through the current client, which is
\* Ready.
C40_OnePurgeThroughCurrent ==
  /\ PurgeIntervals <= 1
  /\ proc.purged.by # 0
       => (proc.purged.by = proc.purged.current /\ proc.purged.phase = "ready")

====
